---- MODULE Spec2Model ----
(***************************************************************************)
(* A model of the Datagrid component (src/src/datagrid.js): the request    *)
(* parameters, the header cells' sort indicator, the table body, the       *)
(* pagination and history collaborators' inputs and the fetches in flight. *)
(* Each action is one run of the constructor's wiring: an event handler or *)
(* the completion callback of a fetch.                                     *)
(***************************************************************************)
EXTENDS Integers, Sequences, FiniteSets, TLC

VARIABLES
    host,           \* the host page at construction: URL query and th markup
    firstLoad,      \* Datagrid.firstLoad
    requestParams,  \* Datagrid.requestParams
    ths,            \* the th elements of the component, in document order
    tbody,          \* the children of the component's tbody
    data,           \* Datagrid.data, the most recent response
    pagination,     \* what the Pagination collaborator was last handed
    history,        \* the calls made on the history collaborator, in order
    requests,       \* the GETs issued so far, in order: the query of each
                    \* and the event whose handler issued it
    inflight,       \* indices in requests of the fetches not yet completed
    steps           \* the calls made by the most recent handler run, in order

vars == <<host, firstLoad, requestParams, ths, tbody, data, pagination,
          history, requests, inflight, steps>>

----------------------------------------------------------------------------
(* Bounds of the model.                                                    *)

\* The number of GETs issued in one behaviour (the initial one included).
MaxFetches == 3

\* The largest total row count of the dense range of server responses.
MaxTotal == 12

\* The largest rowCount of the dense range of server responses.
MaxRespRows == 4

----------------------------------------------------------------------------
(* JavaScript values.  A value is tagged with its type so that null,       *)
(* undefined, NaN and the strings "null", "undefined" stay distinct.       *)
(* A string that the code parses is a sequence of one-character strings.   *)

Null      == [t |-> "null"]
Undefined == [t |-> "undefined"]
NaN       == [t |-> "NaN"]
Num(n)    == [t |-> "number", v |-> n]
Str(s)    == [t |-> "string", v |-> s]

IsNum(x) == x.t = "number"
IsStr(x) == x.t = "string"

\* ToBoolean, as applied by `if (search)` and `if (this.firstLoad)`.
Truthy(x) ==
    CASE x.t = "null"      -> FALSE
      [] x.t = "undefined" -> FALSE
      [] x.t = "NaN"       -> FALSE
      [] x.t = "boolean"   -> x.v
      [] x.t = "number"    -> x.v # 0
      [] x.t = "string"    -> x.v # ""
      [] OTHER             -> TRUE

\* ToString, as applied by string concatenation and by setAttribute.
ToStr(x) ==
    CASE x.t = "null"      -> "null"
      [] x.t = "undefined" -> "undefined"
      [] x.t = "NaN"       -> "NaN"
      [] OTHER             -> x.v

Digits == <<"0", "1", "2", "3", "4", "5", "6", "7", "8", "9">>

IsDigit(c) == \E i \in 1..Len(Digits) : Digits[i] = c

DigitVal(c) == (CHOOSE i \in 1..Len(Digits) : Digits[i] = c) - 1

\* The index of the first character of s at or after i that is not a blank.
RECURSIVE SkipBlanks(_, _)
SkipBlanks(s, i) ==
    IF i <= Len(s) /\ s[i] = " " THEN SkipBlanks(s, i + 1) ELSE i

\* The value of the run of digits of s that starts at i, given the value acc
\* of the digits already read.
RECURSIVE ReadDigits(_, _, _)
ReadDigits(s, i, acc) ==
    IF i <= Len(s) /\ IsDigit(s[i])
    THEN ReadDigits(s, i + 1, 10 * acc + DigitVal(s[i]))
    ELSE acc

\* parseInt(x) with no radix, for x null or a decimal string: blanks are
\* skipped, one sign is read, then digits up to the first other character;
\* no digit at all gives NaN.  null is converted to "null", which has none.
ParseInt(x) ==
    IF ~IsStr(x) THEN NaN
    ELSE LET s == x.v
             i == SkipBlanks(s, 1)
             neg == i <= Len(s) /\ s[i] = "-"
             j == IF i <= Len(s) /\ s[i] \in {"-", "+"} THEN i + 1 ELSE i
         IN  IF j <= Len(s) /\ IsDigit(s[j])
             THEN Num(IF neg THEN 0 - ReadDigits(s, j, 0) ELSE ReadDigits(s, j, 0))
             ELSE NaN

\* A rounding up of n / d, for integers n >= 0 and d > 0.
MathRound_Ceiling(n, d) == (n + d - 1) \div d

\* Math.round(n / d) for integers n and d > 0: the nearest integer, a half
\* going up.
MathRound(n, d) == (2 * n + d) \div (2 * d)

\* obj[name] for an object given as a record: undefined when it has no such
\* property.
GetProp(obj, name) == IF name \in DOMAIN obj THEN obj[name] ELSE Undefined

\* JSON.parse(JSON.stringify(obj)): properties holding undefined are dropped
\* and NaN becomes null.
JsonCopy(obj) ==
    [k \in {n \in DOMAIN obj : obj[n] # Undefined} |->
        IF obj[k] = NaN THEN Null ELSE obj[k]]

----------------------------------------------------------------------------
(* Constants of the component.                                             *)

DEFAULT_PAGE == 1

DEFAULT_ROWS == 15

DEFAULT_SORT == Str("desc")

\* A replacement table that maps both directions to desc.
replacementSorts_AllDesc(key) ==
    CASE key = "asc"  -> Str("desc")
      [] key = "desc" -> Str("desc")
      [] OTHER        -> Undefined

\* replacementSorts[key]: undefined for a key that is neither asc nor desc.
replacementSorts(key) ==
    CASE key = "asc"  -> Str("desc")
      [] key = "desc" -> Str("asc")
      [] OTHER        -> Undefined

\* The EventEmitter instance: the value of `this` inside its listeners.  It
\* carries the emitter's own properties and no firstLoad.
emitter == [domain |-> Null, _events |-> Str("listeners"), _maxListeners |-> Undefined]

Bool(b) == [t |-> "boolean", v |-> b]

\* obj with property name set to val (added when obj has none).
SetProp(obj, name, val) ==
    [k \in DOMAIN obj \cup {name} |-> IF k = name THEN val ELSE obj[k]]

\* querySelector: the first, in document order, of the elements whose
\* indices are in matching; 0 (for null) when there is none.
querySelector(matching) ==
    IF matching # {}
    THEN CHOOSE i \in matching : \A j \in matching : i <= j
    ELSE 0

----------------------------------------------------------------------------
(* Request-state manager.  q is the page URL's query: url.readQueryString  *)
(* gives q[name], null for a parameter the URL does not carry.  cells are  *)
(* the th elements, each with its data-column and data-sort attributes     *)
(* (null for an attribute the element does not have).                      *)

\* The indices of the cells the selector th[data-sort] matches.
WithSort(cells) == {i \in 1..Len(cells) : cells[i].sort # Null}

\* The indices of the cells the selector th[data-column=<name>] matches.
WithColumn(cells, name) == {i \in 1..Len(cells) : cells[i].column = Str(name)}

getPageNumber(q) ==
    IF q.page = Null THEN Num(DEFAULT_PAGE) ELSE ParseInt(q.page)

getRowCount(q) ==
    IF q.rowCount = Null THEN Num(DEFAULT_ROWS) ELSE ParseInt(q.rowCount)

\* A getSortDirection that looks at the header markup before the URL.
getSortDirection_HeaderFirst(q, cells) ==
    LET i == querySelector(WithSort(cells))
    IN  IF i # 0 THEN cells[i].sort
        ELSE IF q.sortDirection # Null THEN q.sortDirection ELSE Undefined

getSortDirection(q, cells) ==
    IF q.sortDirection # Null THEN q.sortDirection
    ELSE LET i == querySelector(WithSort(cells))
         IN  IF i # 0 THEN cells[i].sort ELSE Undefined

getSortColumn(q, cells) ==
    IF q.sortColumn # Null THEN q.sortColumn
    ELSE LET i == querySelector(WithSort(cells))
         IN  IF i # 0 THEN cells[i].column ELSE Undefined

getSearchTerm(q) == q.search

loadRequestParams(q, cells) ==
    LET params == [page          |-> getPageNumber(q),
                   rowCount      |-> getRowCount(q),
                   sortColumn    |-> getSortColumn(q, cells),
                   sortDirection |-> getSortDirection(q, cells)]
        search == getSearchTerm(q)
    IN  IF Truthy(search) THEN SetProp(params, "search", search) ELSE params

----------------------------------------------------------------------------
(* Rendering driver.                                                       *)

LoadingRow == [tr |-> "loading"]

\* showLoadingOverlay: a tbody with a first row is emptied, then the
\* placeholder row is appended.
showLoadingOverlay(body) ==
    LET emptied == IF Len(body) > 0 THEN <<>> ELSE body
    IN  Append(emptied, LoadingRow)

\* parseRows: the tbody's content is replaced by the template's output, one
\* tr per element of rows.
parseRows(body) == [i \in 1..Len(body.rows) |-> [tr |-> "row", row |-> body.rows[i]]]

\* A setSortHeaders that does not remove data-sort from the other cells.
setSortHeaders_KeepsOld(cells, params) ==
    LET i == querySelector(WithColumn(cells, ToStr(params.sortColumn)))
    IN  IF i # 0
        THEN [cells EXCEPT ![i].sort = Str(ToStr(params.sortDirection))]
        ELSE cells

\* setSortHeaders: data-sort is removed from every th, then set on the first
\* th whose data-column is the sort column; both values pass through
\* ToString (the selector is built by concatenation, setAttribute converts).
setSortHeaders(cells, params) ==
    LET cleared == [i \in 1..Len(cells) |-> [cells[i] EXCEPT !.sort = Null]]
        i == querySelector(WithColumn(cleared, ToStr(params.sortColumn)))
    IN  IF i # 0
        THEN [cleared EXCEPT ![i].sort = Str(ToStr(params.sortDirection))]
        ELSE cleared

\* The page count parsePagination computes from the response in data.
PageCount(body) == MathRound(body.total.v, body.rowCount.v)

\* A parsePagination that takes the current page from the response.
parsePagination_FromResponse(params, response) ==
    [page          |-> response.body.current,
     pageCount     |-> Num(PageCount(response.body)),
     requestParams |-> JsonCopy(params)]

\* What parsePagination hands to the Pagination collaborator.
parsePagination(params, response) ==
    [page          |-> params.page,
     pageCount     |-> Num(PageCount(response.body)),
     requestParams |-> JsonCopy(params)]

\* The query of the GET loadData issues: superagent serializes the object
\* at the call, leaving out the properties that hold null or undefined.
Query(params) ==
    [k \in {n \in DOMAIN params : params[n] \notin {Null, Undefined}} |-> params[k]]

----------------------------------------------------------------------------
(* The host pages and the inputs the environment supplies.                 *)

\* The declared columns: the data-column of each th, in document order.
Columns == <<"id", "name">>

\* The values a data-sort attribute of the host markup may have.
MarkupSorts == {Null, Str("asc"), Str("desc")}

\* Every header markup of a host page.
AllMarkups ==
    {[i \in 1..Len(Columns) |-> [column |-> Str(Columns[i]), sort |-> d[i]]] :
        d \in [1..Len(Columns) -> MarkupSorts]}

\* The header markups in which at most one th declares the initial sort.
Markups ==
    {m \in AllMarkups : Cardinality({i \in 1..Len(m) : m[i].sort # Null}) <= 1}

\* The values of the URL's query parameters (null: not in the URL).
UrlPages == {Null, Str(<<"3">>), Str(<<"0">>), Str(<<"-", "2">>), Str(<<"a", "b", "c">>)}

UrlRowCounts == {Null, Str(<<"1", "0">>)}

UrlSortColumns == {Null, Str("name"), Str("zzz")}

UrlSortDirections == {Null, Str("asc"), Str("up")}

UrlSearches == {Null, Str(""), Str("foo")}

\* Every combination of the query parameters.
AllUrls ==
    [page : UrlPages, rowCount : UrlRowCounts, sortColumn : UrlSortColumns,
     sortDirection : UrlSortDirections, search : UrlSearches]

\* The URL with no query.
NoQuery ==
    [page |-> Null, rowCount |-> Null, sortColumn |-> Null,
     sortDirection |-> Null, search |-> Null]

\* The parameters of a URL's query that are present.
Present(q) == {k \in DOMAIN q : q[k] # Null}

\* The URLs with at most one parameter, and those with sort parameters only.
Urls ==
    {q \in AllUrls : \/ Cardinality(Present(q)) <= 1
                     \/ Present(q) \subseteq {"sortColumn", "sortDirection"}}

\* The data-page attribute of the pagination links a user may click.
PageLinks == {Str(<<"1">>), Str(<<"2">>)}

\* The terms a user may submit in the search form.
SearchTerms == {Str(""), Str("bar")}

\* The response to request r of a server that reports total rows in all and
\* rowCount rows a page: it echoes the page asked for and sends the rows.
Response(r, total, rowCount) ==
    [body |-> [current  |-> GetProp(requests[r].query, "page"),
               rowCount |-> Num(rowCount),
               total    |-> Num(total),
               rows     |-> [i \in 1..(IF total < rowCount THEN total ELSE rowCount) |->
                                [req |-> r, id |-> i]]]]

\* The (total, rowCount) pairs of the server's responses.
Servers == {<<2, 15>>}

\* A dense range of (total, rowCount) pairs, with the documented examples.
WideServers ==
    ((0..MaxTotal) \X (1..MaxRespRows)) \cup {<<95, 10>>, <<94, 10>>, <<2, 15>>}

----------------------------------------------------------------------------
(* The component.                                                          *)

\* A loadData that issues the GET a second time, as a retry would.
loadData_Twice(event) ==
    LET get == [query |-> Query(requestParams'), event |-> event]
    IN  /\ requests' = Append(Append(requests, get), get)
        /\ inflight' = inflight \cup {Len(requests) + 1, Len(requests) + 2}

\* loadData, called by the handler of event: one GET is issued with the
\* request parameters as the handler leaves them.
loadData(event) ==
    /\ requests' = Append(requests, [query |-> Query(requestParams'), event |-> event])
    /\ inflight' = inflight \cup {Len(requests) + 1}

\* new Datagrid(component) on a host page with query q and header markup.
Construct(q, markup) ==
    /\ host = [query |-> q, ths |-> markup]
    /\ firstLoad = Bool(TRUE)
    /\ data = Null
    /\ requestParams = loadRequestParams(q, markup)
    /\ pagination = Null
    /\ history = <<>>
    /\ tbody = showLoadingOverlay(<<>>)
    /\ ths = setSortHeaders(markup, requestParams)
    /\ requests = <<[query |-> Query(requestParams), event |-> <<"construct">>]>>
    /\ inflight = {1}
    /\ steps = <<"appendToolbars", "parseSearchbar", "wrapHeaders",
                 "showLoadingOverlay", "setSortHeaders", "loadData">>

\* A data-ready handler that drops the response to any request but the
\* latest one.
DataReady_LatestOnly(r, response) ==
    /\ r \in inflight
    /\ r = Len(requests)
    /\ inflight' = inflight \ {r}
    /\ data' = response
    /\ tbody' = parseRows(response.body)
    /\ pagination' = parsePagination(requestParams, response)
    /\ history' = Append(history,
                    [op    |-> IF Truthy(GetProp(emitter, "firstLoad"))
                               THEN "replace" ELSE "push",
                     state |-> requestParams])
    /\ steps' = <<"parseRows", "parsePagination", "history">>
    /\ UNCHANGED <<host, firstLoad, requestParams, ths, requests>>

\* The handler of data-ready for the response to request r.
DataReady(r, response) ==
    /\ r \in inflight
    /\ inflight' = inflight \ {r}
    /\ data' = response
    /\ tbody' = parseRows(response.body)
    /\ pagination' = parsePagination(requestParams, response)
    /\ history' = Append(history,
                    [op    |-> IF Truthy(GetProp(emitter, "firstLoad"))
                               THEN "replace" ELSE "push",
                     state |-> requestParams])
    /\ steps' = <<"parseRows", "parsePagination", "history">>
    /\ UNCHANGED <<host, firstLoad, requestParams, ths, requests>>

\* A completion that branches on the failure: the response is not handed to
\* the data-ready handler and the tbody shows an error row.
FetchFailed_ShowsError(r) ==
    /\ r \in inflight
    /\ inflight' = inflight \ {r}
    /\ tbody' = <<[tr |-> "error"]>>
    /\ steps' = <<>>
    /\ UNCHANGED <<host, firstLoad, requestParams, ths, data, pagination,
                   history, requests>>

\* The completion of request r with a transport failure: data-ready is
\* emitted with no response, and the handler throws at data.body.
FetchFailed(r) ==
    /\ r \in inflight
    /\ inflight' = inflight \ {r}
    /\ data' = Undefined
    /\ steps' = <<>>
    /\ UNCHANGED <<host, firstLoad, requestParams, ths, tbody, pagination,
                   history, requests>>

\* A sort-request handler that goes back to the first page, as a search does.
SortRequest_ResetsPage(i) ==
    /\ Len(requests) < MaxFetches
    /\ LET sortColumn == ths[i].column
           attr == ths[i].sort
           sortDirection == IF attr = Null THEN DEFAULT_SORT
                            ELSE replacementSorts(attr.v)
       IN  /\ requestParams' = [requestParams EXCEPT
                                    !.page = Num(1),
                                    !.sortColumn = sortColumn,
                                    !.sortDirection = sortDirection]
           /\ ths' = setSortHeaders(ths, requestParams')
    /\ tbody' = showLoadingOverlay(tbody)
    /\ loadData(<<"sort-request", i>>)
    /\ steps' = <<"showLoadingOverlay", "setSortHeaders", "loadData">>
    /\ UNCHANGED <<host, firstLoad, data, pagination, history>>

\* The handler of sort-request for a click on the i-th th.
SortRequest(i) ==
    /\ Len(requests) < MaxFetches
    /\ LET sortColumn == ths[i].column
           attr == ths[i].sort
           sortDirection == IF attr = Null THEN DEFAULT_SORT
                            ELSE replacementSorts(attr.v)
       IN  /\ requestParams' = [requestParams EXCEPT
                                    !.sortColumn = sortColumn,
                                    !.sortDirection = sortDirection]
           /\ ths' = setSortHeaders(ths, requestParams')
    /\ tbody' = showLoadingOverlay(tbody)
    /\ loadData(<<"sort-request", i>>)
    /\ steps' = <<"showLoadingOverlay", "setSortHeaders", "loadData">>
    /\ UNCHANGED <<host, firstLoad, data, pagination, history>>

\* A pagination-request handler that issues the GET with the rows left in
\* place.
PaginationRequest_NoPlaceholder(el) ==
    /\ Len(requests) < MaxFetches
    /\ pagination # Null
    /\ requestParams' = [requestParams EXCEPT !.page = ParseInt(el)]
    /\ loadData(<<"pagination-request", el>>)
    /\ steps' = <<"loadData">>
    /\ UNCHANGED <<host, firstLoad, ths, tbody, data, pagination, history>>

\* A pagination-request handler that starts again from the default rows
\* per page and no search term.
PaginationRequest_DropsTheRest(el) ==
    /\ Len(requests) < MaxFetches
    /\ pagination # Null
    /\ requestParams' = [page          |-> ParseInt(el),
                         rowCount      |-> Num(DEFAULT_ROWS),
                         sortColumn    |-> requestParams.sortColumn,
                         sortDirection |-> requestParams.sortDirection]
    /\ tbody' = showLoadingOverlay(tbody)
    /\ loadData(<<"pagination-request", el>>)
    /\ steps' = <<"showLoadingOverlay", "loadData">>
    /\ UNCHANGED <<host, firstLoad, ths, data, pagination, history>>

\* The handler of pagination-request for a click on a link with data-page.
PaginationRequest(el) ==
    /\ Len(requests) < MaxFetches
    /\ pagination # Null
    /\ requestParams' = [requestParams EXCEPT !.page = ParseInt(el)]
    /\ tbody' = showLoadingOverlay(tbody)
    /\ loadData(<<"pagination-request", el>>)
    /\ steps' = <<"showLoadingOverlay", "loadData">>
    /\ UNCHANGED <<host, firstLoad, ths, data, pagination, history>>

\* A search-request handler that keeps the page it finds.
SearchRequest_KeepsPage(search) ==
    /\ Len(requests) < MaxFetches
    /\ requestParams' = SetProp(requestParams, "search", search)
    /\ tbody' = showLoadingOverlay(tbody)
    /\ loadData(<<"search-request", search>>)
    /\ steps' = <<"showLoadingOverlay", "loadData">>
    /\ UNCHANGED <<host, firstLoad, ths, data, pagination, history>>

\* The handler of search-request for a submitted term.
SearchRequest(search) ==
    /\ Len(requests) < MaxFetches
    /\ requestParams' = SetProp([requestParams EXCEPT !.page = Num(1)],
                                "search", search)
    /\ tbody' = showLoadingOverlay(tbody)
    /\ loadData(<<"search-request", search>>)
    /\ steps' = <<"showLoadingOverlay", "loadData">>
    /\ UNCHANGED <<host, firstLoad, ths, data, pagination, history>>

Init == \E q \in Urls, markup \in Markups : Construct(q, markup)

Next ==
    \/ \E i \in 1..Len(Columns) : SortRequest(i)
    \/ \E el \in PageLinks : PaginationRequest(el)
    \/ \E search \in SearchTerms : SearchRequest(search)
    \/ \E r \in inflight, s \in Servers : DataReady(r, Response(r, s[1], s[2]))
    \/ \E r \in inflight : FetchFailed(r)

Spec == Init /\ [][Next]_vars

----------------------------------------------------------------------------
(* Construction on every host page, followed by the first completion.      *)

InitLoad == \E q \in AllUrls, markup \in AllMarkups : Construct(q, markup)

NextLoad ==
    \/ \E r \in inflight, s \in Servers : DataReady(r, Response(r, s[1], s[2]))
    \/ \E r \in inflight : FetchFailed(r)

SpecLoad == InitLoad /\ [][NextLoad]_vars

----------------------------------------------------------------------------
(* Paging through a server whose total and rowCount range widely.          *)

InitPageCount == \E markup \in Markups : Construct(NoQuery, markup)

NextPageCount ==
    \/ \E el \in PageLinks : PaginationRequest(el)
    \/ \E r \in inflight, s \in WideServers : DataReady(r, Response(r, s[1], s[2]))

SpecPageCount == InitPageCount /\ [][NextPageCount]_vars

----------------------------------------------------------------------------
(* Every handler and completion, from the pages whose URL has no query or  *)
(* a page number only: the order of triggers and completions is explored   *)
(* to a greater depth than the URL's values are.                           *)

OverlapUrls == {NoQuery, [NoQuery EXCEPT !.page = Str(<<"3">>)]}

InitOverlap == \E q \in OverlapUrls, markup \in Markups : Construct(q, markup)

SpecOverlap == InitOverlap /\ [][Next]_vars

----------------------------------------------------------------------------
(* The events behind the requests, for stating the properties.             *)

\* The number of GETs issued so far.
Issued == Len(requests)

\* The kind of the event whose handler issued the n-th GET.
EventOf(n) == requests[n].event[1]

\* The argument of that event: a th index, a data-page or a search term.
ArgOf(n) == requests[n].event[2]

\* The value of a parameter in the n-th GET's query, undefined when the
\* query does not carry it.
Sent(n, name) == GetProp(requests[n].query, name)

\* This step is a run of the handler of the given kind of event.
Handles(kind) ==
    /\ Len(requests') = Len(requests) + 1
    /\ requests'[Len(requests')].event[1] = kind

\* The argument of the event this step handles.
Handled == requests'[Len(requests')].event[2]

----------------------------------------------------------------------------
(* C1: the history collaborator's replace is performed exactly once, on    *)
(* the first successful data-ready, and every later successful data-ready  *)
(* performs a push.                                                        *)
C1_ReplaceOnceThenPush ==
    \A k \in 1..Len(history) :
        history[k].op = (IF k = 1 THEN "replace" ELSE "push")

(* C2: handling search-request leaves page = 1 and search = the submitted  *)
(* term, whatever the page was before, and issues a reload carrying them.  *)
C2_SearchResetsPage ==
    [][Handles("search-request") =>
         /\ requestParams'.page = Num(1)
         /\ requestParams'.search = Handled
         /\ Len(requests') \in inflight'
         /\ requests'[Len(requests')].query.page = Num(1)
         /\ requests'[Len(requests')].query.search = Handled]_vars

\* A search was submitted while the page was not 1.
C2_Witness ==
    /\ Issued >= 2
    /\ EventOf(Issued) = "search-request"
    /\ Sent(Issued - 1, "page") # Num(1)
    /\ requestParams.page = Num(1)

----------------------------------------------------------------------------
(* Sorting.                                                                *)

Directions == {Str("asc"), Str("desc")}

\* The n-th and the one before it are sort-requests on the same th.
SameHeaderTwice(n) ==
    /\ EventOf(n) = "sort-request"
    /\ EventOf(n - 1) = "sort-request"
    /\ ArgOf(n) = ArgOf(n - 1)

\* The request state sent with the m-th GET is valid: a page of at least 1
\* and either a declared sort column with a direction of asc or desc, or
\* neither a sort column nor a direction.
ValidSent(m) ==
    /\ IsNum(Sent(m, "page")) /\ Sent(m, "page").v >= 1
    /\ \/ /\ Sent(m, "sortColumn") \in {Str(Columns[i]) : i \in 1..Len(Columns)}
          /\ Sent(m, "sortDirection") \in Directions
       \/ /\ Sent(m, "sortColumn") = Undefined
          /\ Sent(m, "sortDirection") = Undefined

\* The direction of a column in the request state sent with the m-th GET:
\* undefined for a column that is not the sorted one.
DirectionOf(column, m) ==
    IF Sent(m, "sortColumn") = Str(column) THEN Sent(m, "sortDirection") ELSE Undefined

(* C3, as claimed: from a valid request state, two consecutive             *)
(* sort-requests on the same header return the direction of its column to  *)
(* the value it had before the first of them.                              *)
C3_ToggleTwiceRestores ==
    \A n \in 3..Issued :
        SameHeaderTwice(n) /\ ValidSent(n - 2) =>
            Sent(n, "sortDirection") = DirectionOf(Columns[ArgOf(n)], n - 2)

(* C3, amended: from a valid request state in which the header's column is *)
(* the sorted column, two consecutive sort-requests on that header return  *)
(* sortDirection to the value it had before the first of them, the         *)
(* opposite value being sent in between.                                   *)
C3_ToggleTwiceOnSorted ==
    \A n \in 3..Issued :
        ( /\ SameHeaderTwice(n)
          /\ ValidSent(n - 2)
          /\ Sent(n - 2, "sortColumn") = Str(Columns[ArgOf(n)]) ) =>
            /\ Sent(n, "sortColumn") = Str(Columns[ArgOf(n)])
            /\ Sent(n, "sortDirection") = Sent(n - 2, "sortDirection")
            /\ Sent(n - 1, "sortDirection") \in Directions \ {Sent(n - 2, "sortDirection")}

\* The sorted column's header was clicked twice, from asc over desc to asc.
C3_Witness ==
    /\ Issued >= 3
    /\ SameHeaderTwice(Issued)
    /\ ValidSent(Issued - 2)
    /\ DirectionOf(Columns[ArgOf(Issued)], Issued - 2) = Str("asc")
    /\ Sent(Issued - 1, "sortDirection") = Str("desc")
    /\ requestParams.sortDirection = Str("asc")

(* C4: a sort-request on a header that is not the sorted column sets       *)
(* sortColumn to its column and sortDirection to desc, whatever the sort   *)
(* state was, and leaves the indicator on that header alone.               *)
C4_OtherColumnGetsDefault ==
    [][Handles("sort-request") /\ requestParams.sortColumn # Str(Columns[Handled]) =>
         /\ requestParams'.sortColumn = Str(Columns[Handled])
         /\ requestParams'.sortDirection = Str("desc")
         /\ \A j \in 1..Len(ths') :
               ths'[j].sort = (IF j = Handled THEN Str("desc") ELSE Null)]_vars

\* A header was clicked while another declared column was sorted asc.
C4_Witness ==
    /\ Issued >= 2
    /\ EventOf(Issued) = "sort-request"
    /\ Sent(Issued - 1, "sortColumn") \in
          {Str(Columns[j]) : j \in 1..Len(Columns)} \ {Str(Columns[ArgOf(Issued)])}
    /\ Sent(Issued - 1, "sortDirection") = Str("asc")
    /\ requestParams.sortColumn = Str(Columns[ArgOf(Issued)])
    /\ requestParams.sortDirection = Str("desc")

(* C5: a sort-request changes only sortColumn and sortDirection: page,     *)
(* rowCount and search are as before, in the request state and in the      *)
(* reload's query; a click on the id header while it is asc issues a       *)
(* reload with sortDirection = desc.                                       *)
C5_SortKeepsTheRest ==
    [][Handles("sort-request") =>
         /\ \A k \in {"page", "rowCount", "search"} :
               /\ GetProp(requestParams', k) = GetProp(requestParams, k)
               /\ GetProp(requests'[Len(requests')].query, k) = Sent(Issued, k)
         /\ Len(requests') \in inflight'
         /\ ( /\ Columns[Handled] = "id"
              /\ requestParams.sortColumn = Str("id")
              /\ requestParams.sortDirection = Str("asc") ) =>
                 /\ requests'[Len(requests')].query.sortColumn = Str("id")
                 /\ requests'[Len(requests')].query.sortDirection = Str("desc")]_vars

\* The id header was clicked while it was asc and the page was not 1.
C5_Witness ==
    /\ Issued >= 2
    /\ EventOf(Issued) = "sort-request"
    /\ Columns[ArgOf(Issued)] = "id"
    /\ Sent(Issued - 1, "sortColumn") = Str("id")
    /\ Sent(Issued - 1, "sortDirection") = Str("asc")
    /\ Sent(Issued - 1, "page") # Num(1)
    /\ Sent(Issued, "page") = Sent(Issued - 1, "page")
    /\ Sent(Issued, "sortDirection") = Str("desc")

----------------------------------------------------------------------------
(* Initialization.                                                         *)

\* The number a query string value of the model's URLs denotes to parseInt.
Denotes(str) ==
    CASE str = <<"3">>      -> Num(3)
      [] str = <<"0">>      -> Num(0)
      [] str = <<"-", "2">> -> Num(0 - 2)
      [] str = <<"1", "0">> -> Num(10)
      [] OTHER              -> NaN

\* The th elements of the host markup that declare an initial sort.
Declaring == {i \in 1..Len(host.ths) : host.ths[i].sort # Null}

\* The first of them in document order.
FirstDeclaring == CHOOSE i \in Declaring : \A j \in Declaring : i <= j

\* The header markup of the scenario: column id declares sort asc.
ScenarioMarkup ==
    <<[column |-> Str("id"), sort |-> Str("asc")],
      [column |-> Str("name"), sort |-> Null]>>

(* C6: each field of the initial request state is the URL's parameter when *)
(* the URL has it, else what the header's default-sort markup declares,    *)
(* else the built-in default (page 1, rowCount 15, no sort); the first GET *)
(* carries these, and no sort parameter when there is none.                *)
C6_InitialPrecedence ==
    LET q == host.query
        first == requests[1].query
    IN  /\ Sent(1, "page") =
              (IF q.page # Null THEN Denotes(q.page.v) ELSE Num(1))
        /\ Sent(1, "rowCount") =
              (IF q.rowCount # Null THEN Denotes(q.rowCount.v) ELSE Num(15))
        /\ Sent(1, "sortColumn") =
              (IF q.sortColumn # Null THEN q.sortColumn
               ELSE IF Declaring # {} THEN host.ths[FirstDeclaring].column
               ELSE Undefined)
        /\ Sent(1, "sortDirection") =
              (IF q.sortDirection # Null THEN q.sortDirection
               ELSE IF Declaring # {} THEN host.ths[FirstDeclaring].sort
               ELSE Undefined)
        /\ (q.sortColumn = Null /\ Declaring = {}) =>
              /\ requestParams.sortColumn = Undefined
              /\ "sortColumn" \notin DOMAIN first
        /\ (q.sortDirection = Null /\ Declaring = {}) =>
              /\ requestParams.sortDirection = Undefined
              /\ "sortDirection" \notin DOMAIN first
        /\ (q = NoQuery /\ host.ths = ScenarioMarkup) =>
              first = [page |-> Num(1), rowCount |-> Num(15),
                       sortColumn |-> Str("id"), sortDirection |-> Str("asc")]
        /\ Issued = 1 /\ \A k \in DOMAIN first : requestParams[k] = first[k]

\* The scenario's page was loaded and its first GET has completed.
C6_Witness ==
    /\ host.query = NoQuery
    /\ host.ths = ScenarioMarkup
    /\ Sent(1, "sortColumn") = Str("id")
    /\ Sent(1, "sortDirection") = Str("asc")
    /\ inflight = {}
    /\ pagination # Null

----------------------------------------------------------------------------
(* Pagination.                                                             *)

\* The most recent completion brought a response.
HasResponse == "body" \in DOMAIN data

(* C7: in the initial-load scenario, the response {current: 1, rowCount:   *)
(* 15, total: 2, rows: [2 rows]} gives the pagination collaborator a page  *)
(* count of 1, and the two rows are rendered.                              *)
C7_InitialLoadShowsOnePage ==
    ( /\ host.query = NoQuery
      /\ host.ths = ScenarioMarkup
      /\ Issued = 1
      /\ inflight = {}
      /\ HasResponse
      /\ data.body.total = Num(2)
      /\ data.body.rowCount = Num(15)
      /\ Len(data.body.rows) = 2 ) =>
        /\ pagination.pageCount = Num(1)
        /\ Len(tbody) = 2
        /\ \A i \in 1..Len(tbody) : tbody[i].tr = "row"

(* C8: the page count handed to the pagination collaborator is the         *)
(* response's total / rowCount rounded to the nearest integer, a half      *)
(* going up: 10 for 95 / 10 and 9 for 94 / 10.                             *)
C8_PageCountIsRounded ==
    (HasResponse /\ pagination # Null) =>
        LET total == data.body.total.v
            rowCount == data.body.rowCount.v
            k == pagination.pageCount.v
        IN  /\ IsNum(pagination.pageCount)
            /\ 2 * k * rowCount - rowCount <= 2 * total
            /\ 2 * total < 2 * k * rowCount + rowCount
            /\ (total = 95 /\ rowCount = 10) => k = 10
            /\ (total = 94 /\ rowCount = 10) => k = 9

\* 94 rows at 10 a page were reported and 9 pages handed over, one fewer
\* than the pages the rows fill.
C8_Witness ==
    /\ HasResponse
    /\ data.body.total = Num(94)
    /\ data.body.rowCount = Num(10)
    /\ requestParams.rowCount = Num(15)
    /\ pagination.pageCount = Num(9)
    /\ pagination.pageCount.v * 10 < 94

----------------------------------------------------------------------------
(* Invariants of the request state.                                        *)

(* C9: RequestState.page >= 1 in every reachable state.                    *)
C9_PageAtLeastOne ==
    /\ IsNum(requestParams.page)
    /\ requestParams.page.v >= 1

(* C10: RequestState.sortDirection, whenever it is set, is asc or desc in  *)
(* every reachable state.                                                  *)
C10_SortDirectionInEnum ==
    requestParams.sortDirection \in {Undefined, Str("asc"), Str("desc")}

(* C11: RequestState.sortColumn, whenever it is set, is the identifier of  *)
(* a column declared in the table header markup, in every reachable state. *)
C11_SortColumnDeclared ==
    requestParams.sortColumn \in
        {Undefined} \cup {host.ths[i].column : i \in 1..Len(host.ths)}

(* C12: no GET carries an empty search parameter: in every request issued, *)
(* search is a non-empty string or is not in the query.                    *)
C12_NoEmptySearchSent ==
    \A n \in 1..Issued :
        "search" \in DOMAIN requests[n].query =>
            /\ IsStr(requests[n].query.search)
            /\ requests[n].query.search # Str("")

----------------------------------------------------------------------------
(* Overlapping fetches.                                                    *)

\* This step applies the response to request r through data-ready.
Applies(r) ==
    /\ r \in inflight
    /\ inflight' = inflight \ {r}
    /\ Len(history') = Len(history) + 1

\* This step is the completion of request r with a transport failure.
Fails(r) ==
    /\ r \in inflight
    /\ inflight' = inflight \ {r}
    /\ history' = history

\* The rows of a tbody are the rows of the response to request r.
ShowsRowsOf(body, r) ==
    /\ Len(body) > 0
    /\ \A i \in 1..Len(body) : body[i].tr = "row" /\ body[i].row.req = r

(* C13: a trigger that fires while a fetch is outstanding leaves that      *)
(* fetch outstanding and adds its own; the response to every outstanding   *)
(* request, the latest or not, can be applied, and the rows displayed      *)
(* after it are that response's rows.                                      *)
C13_LastArrivalWins ==
    [][/\ \A r \in inflight, s \in Servers :
              ENABLED DataReady(r, Response(r, s[1], s[2]))
       /\ Len(requests') = Len(requests) + 1 =>
              inflight' = inflight \cup {Len(requests')}
       /\ \A r \in inflight : Applies(r) => ShowsRowsOf(tbody', r)]_vars

\* Two fetches overlapped, both responses were applied, and the rows
\* displayed are those of the earlier request, not of the latest state.
C13_Witness ==
    /\ Issued = 2
    /\ inflight = {}
    /\ Len(history) = 2
    /\ ShowsRowsOf(tbody, 1)
    /\ requests[1].query # Query(requestParams)
    /\ requests[2].query = Query(requestParams)

----------------------------------------------------------------------------
(* The loading placeholder.                                                *)

\* The place of a call in the run of the last handler, 0 when it made none.
Position(call) ==
    IF \E i \in 1..Len(steps) : steps[i] = call
    THEN CHOOSE i \in 1..Len(steps) : steps[i] = call
    ELSE 0

\* The last handler that ran issued a GET: construction or a trigger.
IssuedFetch == Position("loadData") # 0

(* C14: in the initial load and in the handlers of sort-request,           *)
(* pagination-request and search-request, the run that issues the GET has  *)
(* shown the placeholder row before it, and ends with the placeholder as   *)
(* the tbody's only row.                                                   *)
C14_PlaceholderBeforeFetch ==
    IssuedFetch =>
        /\ Position("showLoadingOverlay") # 0
        /\ Position("showLoadingOverlay") < Position("loadData")
        /\ tbody = <<LoadingRow>>

\* After the initial load a sort-request issued a GET, and then a
\* pagination-request issued one over rows already rendered.
C14_Witness ==
    /\ IssuedFetch
    /\ HasResponse
    /\ Issued = 3
    /\ EventOf(2) = "sort-request"
    /\ EventOf(3) = "pagination-request"

----------------------------------------------------------------------------
(* One GET per event.                                                      *)

\* This step is the handler of one of the three trigger events.
Triggered ==
    \/ \E i \in 1..Len(Columns) : SortRequest(i)
    \/ \E el \in PageLinks : PaginationRequest(el)
    \/ \E search \in SearchTerms : SearchRequest(search)

\* This step is the completion of a GET, with a response or without.
Completed ==
    \/ \E r \in inflight, s \in Servers : DataReady(r, Response(r, s[1], s[2]))
    \/ \E r \in inflight : FetchFailed(r)

\* The GETs issued by the handlers of trigger events.
TriggerFetches == {n \in 1..Issued : EventOf(n) # "construct"}

(* C15: construction issues exactly one GET, the handler of every trigger  *)
(* event issues exactly one more, so that the GETs issued are one more     *)
(* than the trigger events handled, and a completion, with a response or   *)
(* with a failure, issues none.                                            *)
C15_OneFetchPerEvent ==
    [][/\ EventOf(1) = "construct"
       /\ Issued = Cardinality(TriggerFetches) + 1
       /\ Triggered =>
              /\ Len(requests') = Len(requests) + 1
              /\ SubSeq(requests', 1, Len(requests)) = requests
              /\ inflight' = inflight \cup {Len(requests')}
       /\ Completed => requests' = requests]_vars

\* Two trigger events were handled and all three GETs completed, one of
\* them with a failure: three GETs were issued and none is outstanding.
C15_Witness ==
    /\ Cardinality(TriggerFetches) = 2
    /\ Issued = 3
    /\ inflight = {}
    /\ Len(history) = 2

----------------------------------------------------------------------------
(* The sort indicator of the header cells.                                 *)

\* The header cells that carry a data-sort attribute.
Marked == {i \in 1..Len(ths) : ths[i].sort # Null}

(* C16: at most one header cell carries the sort indicator; a cell carries *)
(* it exactly when its column is RequestState.sortColumn, and the value of *)
(* the indicator is then RequestState.sortDirection.                       *)
C16_IndicatorFollowsState ==
    /\ Cardinality(Marked) <= 1
    /\ \A i \in 1..Len(ths) :
           /\ i \in Marked <=> ths[i].column = requestParams.sortColumn
           /\ i \in Marked => ths[i].sort = requestParams.sortDirection


(* C17: whenever at least one GET is in flight, the tbody shows the        *)
(* placeholder row and no fetched rows.                                    *)
C17_PlaceholderWhileInFlight ==
    inflight # {} => tbody = <<LoadingRow>>

----------------------------------------------------------------------------
(* Transport failures.                                                     *)

\* The kinds of row a tbody holds: the placeholder and the fetched rows.
RowKinds == {"loading", "row"}

(* C18: the completion of a GET with a transport failure is handled by the *)
(* data-ready handler as any completion: the request is completed once,    *)
(* the absent response is stored as the data, as a response is, and the    *)
(* reading of its fields renders nothing; the tbody never shows anything   *)
(* but the placeholder or fetched rows, and RequestState is unchanged.     *)
C18_FailureTakesSamePath ==
    [][/\ \A i \in 1..Len(tbody') : tbody'[i].tr \in RowKinds
       /\ \A r \in inflight : ENABLED FetchFailed(r)
       /\ \A r \in inflight : Fails(r) =>
              /\ data' = Undefined
              /\ requestParams' = requestParams
              /\ requests' = requests
              /\ <<tbody', ths', pagination', history'>> =
                     <<tbody, ths, pagination, history>>]_vars

\* A GET failed after a trigger: the placeholder is left in place, with no
\* GET outstanding and no response held.
C18_Witness ==
    /\ Issued >= 2
    /\ inflight = {}
    /\ data = Undefined
    /\ tbody = <<LoadingRow>>

----------------------------------------------------------------------------
(* What the handlers leave alone.                                          *)

\* The parameters of RequestState other than the given ones are unchanged
\* by this step.
KeepsAllBut(names) ==
    \A k \in (DOMAIN requestParams \cup DOMAIN requestParams') \ names :
        /\ k \in DOMAIN requestParams \cap DOMAIN requestParams'
        /\ requestParams'[k] = requestParams[k]

(* C19: the handler of pagination-request sets page to the number the      *)
(* clicked link denotes and changes no other parameter; the handler of     *)
(* search-request leaves rowCount, sortColumn and sortDirection as they    *)
(* are; no step changes rowCount.                                          *)
C19_HandlersKeepTheRest ==
    [][/\ Handles("pagination-request") =>
              /\ requestParams'.page = ParseInt(Handled)
              /\ KeepsAllBut({"page"})
       /\ Handles("search-request") => KeepsAllBut({"page", "search"})
       /\ requestParams'.rowCount = requestParams.rowCount]_vars

\* A search-request and then a pagination-request were handled on a sorted
\* table: the GET for page 2 carries the search term and the sort.
C19_Witness ==
    /\ Issued = 3
    /\ EventOf(2) = "search-request"
    /\ EventOf(3) = "pagination-request"
    /\ Sent(3, "page") = Num(2)
    /\ Sent(3, "search") = Str("bar")
    /\ Sent(3, "rowCount") = Num(DEFAULT_ROWS)
    /\ Sent(3, "sortColumn") # Undefined
    /\ Sent(3, "sortDirection") # Undefined

----------------------------------------------------------------------------
(* What a response is applied with.                                        *)

\* This step completes request r with a response, which becomes the data.
Arrives(r) ==
    /\ r \in inflight
    /\ inflight' = inflight \ {r}
    /\ "body" \in DOMAIN data'

(* C20: when a response is applied, the page given to the pagination and   *)
(* the entry given to the history are those of RequestState as it is at    *)
(* the arrival, and exactly one history entry is recorded.                 *)
C20_AppliedWithStateAtArrival ==
    [][\A r \in inflight : Arrives(r) =>
           /\ pagination'.page = requestParams.page
           /\ Len(history') = Len(history) + 1
           /\ SubSeq(history', 1, Len(history)) = history
           /\ history'[Len(history')].state = requestParams]_vars

\* Two fetches overlapped and the response to the first was applied last:
\* the rows rendered are those of the page the first GET asked for, while
\* the pagination and the history entry carry another page.
C20_Witness ==
    /\ Issued >= 2
    /\ HasResponse
    /\ ShowsRowsOf(tbody, 1)
    /\ data.body.current = Sent(1, "page")
    /\ pagination.page # data.body.current
    /\ history[Len(history)].state.page # data.body.current
    /\ history[Len(history)].state.page = requestParams.page

====
